---------------------------- MODULE Spec2Model ----------------------------
(***************************************************************************)
(* unibot: retrieval-augmented question answering.                         *)
(*                                                                         *)
(*   Spec        the query handler POST of frontend/app/api/ask/route.ts   *)
(*               (the budget-enforcing variant), one request after another *)
(*               against the queries and tickets tables.                   *)
(*   SpecContext the context assembly of that handler on its own, over a   *)
(*               wider range of ranked matches.                            *)
(*   SpecEmbed   concurrent calls of embedWithGemini of frontend/lib/ai.ts *)
(*               with its lazily loaded local model.                       *)
(*   SpecIngest  main of frontend/scripts/ingest.ts: embed each piece and  *)
(*               insert the rows in batches.                               *)
(*   SpecChunk   chunkText and slidingWindows of that script, as functions *)
(*               of a text, a size and an overlap.                         *)
(*   SpecNormalize  normalize of that script, applied once and twice to a  *)
(*               raw text.                                                 *)
(*                                                                         *)
(* Strings are modelled by what the code does with them: a text the code   *)
(* only measures and concatenates is a sequence of pieces, each a slice of *)
(* a block or a separator, whose length is the sum of the pieces.          *)
(* Similarities, confidences and the threshold are fixed-point numbers in  *)
(* units of 1/Scale.                                                       *)
(***************************************************************************)
EXTENDS Integers, Sequences, FiniteSets, TLC

VARIABLES
    \* ---- process configuration (route.ts:5-6, ai.ts:80)
    threshold,     \* CONF_THRESHOLD, in units of 1/Scale
    hasKey,        \* process.env.GEMINI_API_KEY is set
    \* ---- the query handler's position and locals (route.ts:8-104)
    pc,            \* where the handler stands
    question,      \* the request body's question
    rpc,           \* how the match_chunks_v384 rpc ended: "none", "error", "ok"
    matches,       \* data of the match_chunks_v384 rpc
    docsById,      \* document id -> name, as far as the lookup resolved
    context,       \* the assembled context string (pieces)
    gemini,        \* how askGemini ended in this request
    askCalls,      \* number of askGemini calls of this request
    answer,        \* the answer text
    confidence,    \* the retrieval confidence
    citations,     \* the citations of the response
    saved,         \* the row the queries insert returned
    ticketReq,     \* the tickets insert this request issued
    insertedId,    \* id of the queries row this request's insert stored (0: none)
    response,      \* the HTTP response
    \* ---- the store (external collaborator)
    queries,       \* rows of table queries
    tickets,       \* rows of table tickets
    nrequests,     \* requests received so far
    \* ---- the local embedder (ai.ts:64-74)
    embedder,      \* the module-level instance: 0 is null, c the model caller c loaded
    loads,         \* pipeline() calls started so far
    epc,           \* where each caller of embedWithGemini stands
    eused,         \* the instance each caller ran its text on (0: none yet)
    \* ---- the ingestion script (ingest.ts:152-208)
    ipc,           \* where main stands
    npieces,       \* pieces.length
    idx,           \* the loop's i
    buffer,        \* the rows not yet inserted
    chunks,        \* rows of table chunks
    embedCalls,    \* embed() calls so far
    emptyReplies,  \* replies without a usable vector so far
    exitCode,      \* the process's exit code, -1 while it runs
    embedFailed,   \* history: some embed() call of this run has thrown
    \* ---- the chunker (ingest.ts:85-118)
    cpc,           \* "input" before chunkText ran, "chunked" after
    text,          \* the text handed to chunkText
    size,          \* --size
    overlap,       \* --overlap
    pushed,        \* the chunks array before its map and filter
    pieces,        \* what chunkText returns
    windows,       \* what slidingWindows returns for the text
    \* ---- the normalizer (ingest.ts:76-83)
    npc,           \* "raw" before normalize ran, "normalized" after
    raw,           \* the text read from the file
    normalized,    \* normalize(raw)
    renormalized   \* normalize(normalize(raw))

qvars == <<threshold, hasKey, pc, question, rpc, matches, docsById, context, gemini,
           askCalls, answer, confidence, citations, saved, ticketReq, insertedId,
           response,
           queries, tickets, nrequests>>

evars == <<embedder, loads, epc, eused>>

ivars == <<ipc, npieces, idx, buffer, chunks, embedCalls, emptyReplies, exitCode, embedFailed>>

cvars == <<cpc, text, size, overlap, pushed, pieces, windows>>

nvars == <<npc, raw, normalized, renormalized>>

\* what the query handler leaves alone
nonQuery == <<evars, ivars, cvars, nvars>>
\* what the embedder's callers leave alone
nonEmbed == <<qvars, ivars, cvars, nvars>>
\* what the ingestion leaves alone
nonIngest == <<qvars, evars, cvars, nvars>>
\* what the chunker leaves alone
nonChunk == <<qvars, evars, ivars, nvars>>
\* what the normalizer leaves alone
nonNormalize == <<qvars, evars, ivars, cvars>>

vars == <<qvars, evars, ivars, cvars, nvars>>

-----------------------------------------------------------------------------
(* Bounds of the model *)

\* The fixed-point unit: 1.0 is Scale.
Scale == 4
\* RAG_TOP_K, the match_count handed to the rpc (route.ts:5, from the environment).
TOP_K == 2
\* Requests one behaviour serves.
MaxRequests == 2
\* Ranked matches of the context assembly checked on its own.
MaxBlocks == 3
\* Concurrent callers of embedWithGemini.
NumCallers == 3
\* Replies of the embedding backend without a usable vector, per ingestion.
MaxEmptyReplies == 1
\* Characters of a text handed to chunkText, and the largest --size.
MaxTextLen == 6
MaxSize == 4
\* Characters of a raw text handed to normalize.
MaxRawLen == 5

-----------------------------------------------------------------------------
(* Program constants *)

\* route.ts:66, the character budget of the context.
ContextBudget == 9000
\* route.ts:83, the snippet length of a citation.
SnippetLen == 240
\* ai.ts:84, the context prefix the offline answer quotes.
OfflineSlice == 500

\* ingest.ts:179, rows per insert.
BATCH == 40
\* ingest.ts:185, the dimension of a vector of the embedding backend.
EmbeddingDim == 768

\* "\n\n---\n\n" (route.ts:66-67)
Separator == [kind |-> "sep", blk |-> 0, from |-> 1, to |-> 7]

Max(a, b) == IF a >= b THEN a ELSE b
Min(a, b) == IF a <= b THEN a ELSE b

RECURSIVE StrLen(_)
\* .length of a string of pieces
StrLen(s) == IF s = <<>> THEN 0
             ELSE (Head(s).to - Head(s).from + 1) + StrLen(Tail(s))


-----------------------------------------------------------------------------
(* Inputs of the query handler *)

\* A request body's question: a non-empty string, the empty string, a non-string.
Questions == { [type |-> "string", text |-> "hola"],
               [type |-> "string", text |-> ""],
               [type |-> "number", text |-> "7"] }

DocIds == {"d1", "d2"}
\* documents.name of the stored documents
DocName(d) == IF d = "d1" THEN "FAQ" ELSE "Reglamento"
NameLen(n) == CASE n = "FAQ" -> 3
                [] n = "Reglamento" -> 10
                [] n = "desconocido" -> 11

\* A raw similarity: absent, or a number below 0, inside [0,1] or above 1.
NoSim == [defined |-> FALSE, value |-> 0]
SimValues == {-1, Scale \div 2, Scale + 1}
Sims == {NoSim} \cup { [defined |-> TRUE, value |-> v] : v \in SimValues }

\* content lengths of the chunks the handler is run on: two such blocks fit the
\* budget when the documents resolve to their names and do not when they do not
ContentLens == {4480}
\* and of the context assembly checked on its own
WideContentLens == {100, 2960, 4480, 8975, 8976, 9100}

MatchRows(lens) == [document_id : DocIds, len : lens, similarity : Sims]

RECURSIVE SeqsUpTo(_, _)
\* the sequences over S of length <= n
SeqsUpTo(S, n) == IF n = 0 THEN {<<>>}
                  ELSE LET shorter == SeqsUpTo(S, n - 1)
                       IN  shorter \cup { Append(q, x) : q \in {r \in shorter : Len(r) = n - 1}, x \in S }

\* data of the rpc: null, or at most match_count rows
NullMatches == [null |-> TRUE, rows |-> <<>>]
RpcData == {NullMatches} \cup
           { [null |-> FALSE, rows |-> r] : r \in SeqsUpTo(MatchRows(ContentLens), TOP_K) }

Thresholds == {0, Scale \div 2, Scale}

-----------------------------------------------------------------------------
(* The handler's pure parts *)

\* route.ts:11  !question || typeof question !== "string"
InvalidQuestion(q) == q.type # "string" \/ q.text = ""

\* a faulty variant: the test for null alone
NoMatchesNullOnly(m) == m.null

\* route.ts:30  !matches || matches.length === 0
NoMatches(m) == m.null \/ Len(m.rows) = 0

\* the decimal digits of a rank
Digits(n) == IF n < 10 THEN 1 ELSE 2

\* route.ts:58  docsById[m.document_id] || { name: "desconocido", ... }
DocNameOf(docs, d) == IF d \in DOMAIN docs THEN docs[d] ELSE "desconocido"

\* route.ts:57-61  `# [${idx + 1}] ${doc.name}` + "\n" + m.content, a whole block
ContextBlocks(ms, docs) ==
    [ i \in 1..Len(ms) |->
        [ kind |-> "block", blk |-> i, from |-> 1,
          to |-> 3 + Digits(i) + 2 + NameLen(DocNameOf(docs, ms[i].document_id)) + 1 + ms[i].len ] ]

\* a faulty variant: the test without the separator's length
OverflowsWithoutSeparator(ctx, block) == StrLen(ctx \o <<block>>) > ContextBudget

\* route.ts:66  (context + "\n\n---\n\n" + block).length > 9000
Overflows(ctx, block) == StrLen(ctx \o <<Separator>> \o <<block>>) > ContextBudget

\* route.ts:67  context ? context + "\n\n---\n\n" + block : block
AddBlock(ctx, block) == IF StrLen(ctx) > 0 THEN ctx \o <<Separator>> \o <<block>>
                        ELSE <<block>>

RECURSIVE AssembleFrom(_, _, _)
\* route.ts:64-68  the loop over contextBlocks, from block i on
AssembleFrom(blocks, i, ctx) ==
    IF i > Len(blocks) THEN ctx
    ELSE IF Overflows(ctx, blocks[i]) THEN ctx
    ELSE AssembleFrom(blocks, i + 1, AddBlock(ctx, blocks[i]))

AssembleContext(blocks) == AssembleFrom(blocks, 1, <<>>)

\* route.ts:74  (matches?.[0]?.similarity as number) ?? 0
TopSim(ms) == IF Len(ms) > 0 /\ ms[1].similarity.defined THEN ms[1].similarity.value ELSE 0

\* a faulty variant: the top similarity as it comes
ConfidenceUnclamped(ms) == TopSim(ms)

\* route.ts:75  Math.max(0, Math.min(1, topSim))
Confidence(ms) == Max(0, Min(Scale, TopSim(ms)))

\* route.ts:78-86  (toFixed(3) keeps a multiple of 1/Scale as it is: Scale divides 1000)
Citations(ms, docs) ==
    [ i \in 1..Len(ms) |->
        [ docName |-> DocNameOf(docs, ms[i].document_id),
          snippetLen |-> Min(ms[i].len, SnippetLen) + (IF ms[i].len > SnippetLen THEN 3 ELSE 0),
          similarity |-> IF ms[i].similarity.defined THEN ms[i].similarity.value ELSE 0 ] ]

\* a faulty variant: the ticket without a saved row
ShouldTicketUnsaved(conf, thr, sv) == conf < thr

\* a faulty variant: the ticket at the threshold too
ShouldTicketAtOrBelow(conf, thr, sv) == conf <= thr /\ sv.ok /\ sv.id # 0

\* route.ts:95  confidence < CONF_THRESHOLD && saved?.id
ShouldTicket(conf, thr, sv) == conf < thr /\ sv.ok /\ sv.id # 0

\* Answers: the fixed no-information message (route.ts:31-32), the offline answer
\* (ai.ts:84), the text of the generative backend trimmed (ai.ts:125-126).
NoAnswer == [kind |-> "none", len |-> 0]
FallbackAnswer == [kind |-> "insufficient", len |-> 138]
OfflineAnswer(ctx) == [kind |-> "offline", len |-> 87 + Min(StrLen(ctx), OfflineSlice) + 3]
GeneratedAnswers == { [kind |-> "generated", len |-> n] : n \in {0, 200} }

\* Responses
NoResponse == [status |-> 0, error |-> "", answer |-> NoAnswer, citations |-> <<>>, confidence |-> 0]
ErrorResponse(st, msg) == [NoResponse EXCEPT !.status = st, !.error = msg]
AnswerResponse(a, c, conf) ==
    [status |-> 200, error |-> "", answer |-> a, citations |-> c, confidence |-> conf]

NotSaved == [ok |-> FALSE, id |-> 0]
NoTicket == [issued |-> FALSE, query_id |-> 0, status |-> ""]
\* ids of the queries table: one per row, in insertion order
NewId(rows) == Len(rows) + 1


-----------------------------------------------------------------------------
(* The query handler, POST of route.ts:8-104 *)

\* the locals of a request that has not started
IdleLocals ==
    /\ question = [type |-> "string", text |-> ""]
    /\ rpc = "none"
    /\ matches = NullMatches
    /\ docsById = <<>>
    /\ context = <<>>
    /\ gemini = "notcalled"
    /\ askCalls = 0
    /\ answer = NoAnswer
    /\ confidence = 0
    /\ citations = <<>>
    /\ saved = NotSaved
    /\ ticketReq = NoTicket
    /\ insertedId = 0
    /\ response = NoResponse

InitStore ==
    /\ queries = <<>>
    /\ tickets = <<>>
    /\ nrequests = 0

\* the ingestion script before main runs
InitIngestIdle ==
    /\ ipc = "off"
    /\ npieces = 0
    /\ idx = 0
    /\ buffer = <<>>
    /\ chunks = <<>>
    /\ embedCalls = 0
    /\ emptyReplies = 0
    /\ exitCode = -1
    /\ embedFailed = FALSE

\* the chunker before it is given a text
InitChunkIdle ==
    /\ cpc = "off"
    /\ text = <<>>
    /\ size = 1
    /\ overlap = 0
    /\ pushed = <<>>
    /\ pieces = <<>>
    /\ windows = <<>>

\* the normalizer before it is given a text
InitNormalizeIdle ==
    /\ npc = "off"
    /\ raw = <<>>
    /\ normalized = <<>>
    /\ renormalized = <<>>

Callers == 1..NumCallers

\* the embedder before its first call (ai.ts:64)
InitEmbedder ==
    /\ embedder = 0
    /\ loads = 0
    /\ epc = [c \in Callers |-> "idle"]
    /\ eused = [c \in Callers |-> 0]

Init ==
    /\ threshold \in Thresholds
    /\ hasKey \in BOOLEAN
    /\ pc = "idle"
    /\ IdleLocals
    /\ InitStore
    /\ InitEmbedder
    /\ InitIngestIdle
    /\ InitChunkIdle
    /\ InitNormalizeIdle

\* route.ts:10-16: the body is read and checked, the question's embedding asked for
Receive ==
    /\ pc = "idle"
    /\ nrequests < MaxRequests
    /\ nrequests' = nrequests + 1
    /\ \E q \in Questions :
         /\ question' = q
         /\ IF InvalidQuestion(q)
            THEN /\ response' = ErrorResponse(400, "Pregunta invalida")
                 /\ pc' = "responded"
            ELSE /\ response' = response
                 /\ pc' = "embed"
    /\ UNCHANGED <<threshold, hasKey, rpc, matches, docsById, context, gemini, askCalls, answer,
                   confidence, citations, saved, ticketReq, insertedId, queries, tickets,
                   nonQuery>>

\* route.ts:16-22: embedWithGemini resolves and the rpc is called, or it rejects
\* and the catch of route.ts:100-103 answers
Embed ==
    /\ pc = "embed"
    /\ \/ /\ pc' = "search"
          /\ response' = response
       \/ /\ pc' = "responded"
          /\ response' = ErrorResponse(500, "Error en /api/ask")
    /\ UNCHANGED <<threshold, hasKey, question, rpc, matches, docsById, context, gemini, askCalls,
                   answer, confidence, citations, saved, ticketReq, insertedId, queries,
                   tickets, nrequests,
                   nonQuery>>

\* route.ts:19-54: the rpc's result; an error answers 500, no match goes to the
\* queries insert of route.ts:34, matches go to the documents lookup
Search ==
    /\ pc = "search"
    /\ \/ /\ pc' = "responded"
          /\ response' = ErrorResponse(500, "Fallo la busqueda vectorial")
          /\ rpc' = "error"
          /\ matches' = matches
       \/ \E m \in RpcData :
            /\ rpc' = "ok"
            /\ matches' = m
            /\ response' = response
            /\ pc' = IF NoMatches(m) THEN "nomatch_save" ELSE "docs"
    /\ UNCHANGED <<threshold, hasKey, question, docsById, context, gemini, askCalls, answer,
                   confidence, citations, saved, ticketReq, insertedId, queries, tickets,
                   nrequests,
                   nonQuery>>

\* route.ts:34-40: the store takes or refuses the row; the handler answers the
\* fixed message either way
NoMatchSave ==
    /\ pc = "nomatch_save"
    /\ answer' = FallbackAnswer
    /\ \/ /\ queries' = Append(queries, [id |-> NewId(queries), confidence |-> 0])
          /\ insertedId' = NewId(queries)
       \/ /\ queries' = queries
          /\ insertedId' = insertedId
    /\ response' = AnswerResponse(FallbackAnswer, <<>>, 0)
    /\ pc' = "responded"
    /\ UNCHANGED <<threshold, hasKey, question, rpc, matches, docsById, context, gemini, askCalls,
                   confidence, citations, saved, ticketReq, tickets, nrequests,
                   nonQuery>>

\* route.ts:47-71: the documents lookup resolves (the rows, or an error), the
\* blocks and the context are built and askGemini is called
LoadDocs ==
    /\ pc = "docs"
    /\ \E found \in { {}, {matches.rows[i].document_id : i \in 1..Len(matches.rows)} } :
         /\ docsById' = [d \in found |-> DocName(d)]
         /\ context' = AssembleContext(ContextBlocks(matches.rows, docsById'))
    /\ askCalls' = askCalls + 1
    /\ pc' = "ask"
    /\ UNCHANGED <<threshold, hasKey, question, rpc, matches, gemini, answer, confidence, citations,
                   saved, ticketReq, insertedId, response, queries, tickets, nrequests,
                   nonQuery>>

\* ai.ts:79-127 and route.ts:71-93: askGemini returns the offline answer without a
\* key, the backend's text on success, and rejects when fetch fails or the status
\* is not ok; the catch of route.ts:100-103 answers a rejection. On an answer the
\* confidence and the citations are computed and the queries insert is issued.
AskGemini ==
    /\ pc = "ask"
    /\ \/ /\ ~hasKey
          /\ gemini' = "offline"
          /\ answer' = OfflineAnswer(context)
       \/ /\ hasKey
          /\ gemini' = "ok"
          /\ answer' \in GeneratedAnswers
       \/ /\ hasKey
          /\ gemini' \in {"unreachable", "status"}
          /\ answer' = answer
    /\ IF gemini' \in {"unreachable", "status"}
       THEN /\ response' = ErrorResponse(500, "Error en /api/ask")
            /\ pc' = "responded"
            /\ UNCHANGED <<confidence, citations>>
       ELSE /\ confidence' = Confidence(matches.rows)
            /\ citations' = Citations(matches.rows, docsById)
            /\ response' = response
            /\ pc' = "save"
    /\ UNCHANGED <<threshold, hasKey, question, rpc, matches, docsById, context, askCalls, saved,
                   ticketReq, insertedId, queries, tickets, nrequests,
                   nonQuery>>

\* route.ts:89-99: the insert's row or none; then the ticket is asked for, or the
\* response is given
SaveQuery ==
    /\ pc = "save"
    /\ \/ /\ queries' = Append(queries, [id |-> NewId(queries), confidence |-> confidence])
          /\ saved' = [ok |-> TRUE, id |-> NewId(queries)]
          /\ insertedId' = NewId(queries)
       \/ /\ queries' = queries
          /\ saved' = NotSaved
          /\ insertedId' = insertedId
    /\ IF ShouldTicket(confidence, threshold, saved')
       THEN /\ ticketReq' = [issued |-> TRUE, query_id |-> saved'.id, status |-> "open"]
            /\ response' = response
            /\ pc' = "ticket"
       ELSE /\ ticketReq' = ticketReq
            /\ response' = AnswerResponse(answer, citations, confidence)
            /\ pc' = "responded"
    /\ UNCHANGED <<threshold, hasKey, question, rpc, matches, docsById, context, gemini, askCalls,
                   answer, confidence, citations, tickets, nrequests,
                   nonQuery>>

\* route.ts:96-99: the store takes or refuses the ticket; its result is not read
InsertTicket ==
    /\ pc = "ticket"
    /\ \/ tickets' = Append(tickets, [query_id |-> ticketReq.query_id, status |-> ticketReq.status])
       \/ tickets' = tickets
    /\ response' = AnswerResponse(answer, citations, confidence)
    /\ pc' = "responded"
    /\ UNCHANGED <<threshold, hasKey, question, rpc, matches, docsById, context, gemini, askCalls,
                   answer, confidence, citations, saved, ticketReq, insertedId, queries,
                   nrequests,
                   nonQuery>>

\* the request is over; the handler's locals are gone
Finish ==
    /\ pc = "responded"
    /\ pc' = "idle"
    /\ question' = [type |-> "string", text |-> ""]
    /\ rpc' = "none"
    /\ matches' = NullMatches
    /\ docsById' = <<>>
    /\ context' = <<>>
    /\ gemini' = "notcalled"
    /\ askCalls' = 0
    /\ answer' = NoAnswer
    /\ confidence' = 0
    /\ citations' = <<>>
    /\ saved' = NotSaved
    /\ ticketReq' = NoTicket
    /\ insertedId' = 0
    /\ response' = NoResponse
    /\ UNCHANGED <<threshold, hasKey, queries, tickets, nrequests,
                   nonQuery>>

Next == Receive \/ Embed \/ Search \/ NoMatchSave \/ LoadDocs \/ AskGemini \/ SaveQuery
        \/ InsertTicket \/ Finish

Spec == Init /\ [][Next]_vars

-----------------------------------------------------------------------------
(* The context assembly of route.ts:56-68 on its own *)

WideRows == { [document_id |-> d, len |-> n, similarity |-> NoSim] :
                d \in DocIds, n \in WideContentLens }

InitContext ==
    /\ threshold = 0
    /\ hasKey = FALSE
    /\ pc = "assemble"
    /\ question = [type |-> "string", text |-> "hola"]
    /\ rpc = "ok"
    /\ matches \in { [null |-> FALSE, rows |-> r] : r \in SeqsUpTo(WideRows, MaxBlocks) }
    /\ docsById = <<>>
    /\ context = <<>>
    /\ gemini = "notcalled"
    /\ askCalls = 0
    /\ answer = NoAnswer
    /\ confidence = 0
    /\ citations = <<>>
    /\ saved = NotSaved
    /\ ticketReq = NoTicket
    /\ insertedId = 0
    /\ response = NoResponse
    /\ InitStore
    /\ InitEmbedder
    /\ InitIngestIdle
    /\ InitChunkIdle
    /\ InitNormalizeIdle

\* route.ts:47-68 for the matches given: the documents resolve or not, the
\* blocks are built and packed
Assemble ==
    /\ pc = "assemble"
    /\ \E found \in { {}, {matches.rows[i].document_id : i \in 1..Len(matches.rows)} } :
         /\ docsById' = [d \in found |-> DocName(d)]
         /\ context' = AssembleContext(ContextBlocks(matches.rows, docsById'))
    /\ pc' = "assembled"
    /\ UNCHANGED <<threshold, hasKey, question, rpc, matches, gemini, askCalls, answer,
                   confidence, citations, saved, ticketReq, insertedId, response, queries,
                   tickets, nrequests,
                   nonQuery>>

NextContext == Assemble

SpecContext == InitContext /\ [][NextContext]_vars

-----------------------------------------------------------------------------
(* embedWithGemini of ai.ts:64-74, called concurrently *)

InitEmbed ==
    /\ threshold = 0
    /\ hasKey = FALSE
    /\ pc = "idle"
    /\ IdleLocals
    /\ InitStore
    /\ InitEmbedder
    /\ InitIngestIdle
    /\ InitChunkIdle
    /\ InitNormalizeIdle

\* ai.ts:67-72: the caller tests the instance; without one it starts the load and
\* suspends at the await of pipeline(), with one it runs the model on its text
CallEmbed(c) ==
    /\ epc[c] = "idle"
    /\ IF embedder = 0
       THEN /\ loads' = loads + 1
            /\ epc' = [epc EXCEPT ![c] = "loading"]
            /\ eused' = eused
       ELSE /\ loads' = loads
            /\ epc' = [epc EXCEPT ![c] = "inferring"]
            /\ eused' = [eused EXCEPT ![c] = embedder]
    /\ UNCHANGED <<embedder, nonEmbed>>

\* ai.ts:69-72: the caller's load resolves, the instance is assigned and run
LoadResolves(c) ==
    /\ epc[c] = "loading"
    /\ embedder' = c
    /\ eused' = [eused EXCEPT ![c] = c]
    /\ epc' = [epc EXCEPT ![c] = "inferring"]
    /\ UNCHANGED <<loads, nonEmbed>>

\* ai.ts:69: the caller's load rejects and embedWithGemini rejects with it
LoadRejects(c) ==
    /\ epc[c] = "loading"
    /\ epc' = [epc EXCEPT ![c] = "failed"]
    /\ UNCHANGED <<embedder, loads, eused, nonEmbed>>

\* ai.ts:72-73: the model's output is returned as an array
InferResolves(c) ==
    /\ epc[c] = "inferring"
    /\ epc' = [epc EXCEPT ![c] = "done"]
    /\ UNCHANGED <<embedder, loads, eused, nonEmbed>>

NextEmbed == \E c \in Callers :
                CallEmbed(c) \/ LoadResolves(c) \/ LoadRejects(c) \/ InferResolves(c)

SpecEmbed == InitEmbed /\ [][NextEmbed]_vars

-----------------------------------------------------------------------------
(* The ingestion script, ingest.ts:120-208 *)

\* the numbers of pieces chunkText hands to main
PieceCounts == {0, 1, BATCH - 1, BATCH, BATCH + 1, 2 * BATCH + 1}

\* Replies of the embedding backend to embed (ingest.ts:121-136): a status that
\* is not ok, or a body whose embedding is
\*   "values"      {embedding: {values: [768 numbers]}}
\*   "novalues"    {embedding: {values: []}}
\*   "nothing"     {}
\*   "object"      {embedding: {}}
\*   "text"        {embedding: {values: "abc"}}
EmbedReplies == { [ok |-> FALSE, body |-> "nothing"] } \cup
                { [ok |-> TRUE, body |-> b] :
                    b \in {"values", "novalues", "nothing", "object", "text"} }

\* a reply that carries no usable vector
EmptyReply(r) == r.ok /\ r.body # "values"

\* ingest.ts:137-141  data?.embedding?.values ?? data?.data?.[0]?.embedding?.values
\*                    ?? data?.embedding ?? []
ReplyValues(r) == CASE r.body = "values"   -> [array |-> TRUE,  dim |-> EmbeddingDim]
                    [] r.body = "novalues" -> [array |-> TRUE,  dim |-> 0]
                    [] r.body = "nothing"  -> [array |-> TRUE,  dim |-> 0]
                    [] r.body = "object"   -> [array |-> FALSE, dim |-> 0]
                    [] r.body = "text"     -> [array |-> FALSE, dim |-> 3]

\* ingest.ts:142  !values || !Array.isArray(values)
RejectsValues(v) == ~v.array

\* a faulty variant: a failed call answered with an empty vector
EmbedResultSwallowed(r) ==
    IF ~r.ok \/ RejectsValues(ReplyValues(r)) THEN [throws |-> FALSE, dim |-> 0]
    ELSE [throws |-> FALSE, dim |-> ReplyValues(r).dim]

\* ingest.ts:120-144  embed: throws, or returns the vector (its dimension)
EmbedResult(r) ==
    IF ~r.ok THEN [throws |-> TRUE, dim |-> 0]
    ELSE IF RejectsValues(ReplyValues(r)) THEN [throws |-> TRUE, dim |-> 0]
    ELSE [throws |-> FALSE, dim |-> ReplyValues(r).dim]

InitIngest ==
    /\ threshold = 0
    /\ hasKey = FALSE
    /\ pc = "idle"
    /\ IdleLocals
    /\ InitStore
    /\ InitEmbedder
    /\ ipc = "start"
    /\ npieces \in PieceCounts
    /\ idx = 0
    /\ buffer = <<>>
    /\ chunks = <<>>
    /\ embedCalls = 0
    /\ emptyReplies = 0
    /\ exitCode = -1
    /\ embedFailed = FALSE
    /\ InitChunkIdle
    /\ InitNormalizeIdle

\* a faulty variant: the buffer flushed only once it is longer than BATCH
FlushDueLate(buf, i, n) == Len(buf) > BATCH \/ i = n - 1

\* ingest.ts:193  buffer.length >= BATCH || i === pieces.length - 1
FlushDue(buf, i, n) == Len(buf) >= BATCH \/ i = n - 1

\* ingest.ts:134, 142: the reply makes embed throw (a status that is not ok, a
\* value that is not an array)
ReplyFails(r) == ~r.ok \/ ~ReplyValues(r).array

\* ingest.ts:161-185: no piece exits 1; else the documents insert gives the id,
\* or its failure rejects main (ingest.ts:205-208), and the loop starts
CreateDocument ==
    /\ ipc = "start"
    /\ IF npieces = 0
       THEN /\ ipc' = "exited"
            /\ exitCode' = 1
       ELSE \/ /\ ipc' = "embed"
               /\ exitCode' = exitCode
            \/ /\ ipc' = "exited"
               /\ exitCode' = 1
    /\ UNCHANGED <<npieces, idx, buffer, chunks, embedCalls, emptyReplies, embedFailed, nonIngest>>

\* ingest.ts:185-199: embed(pieces[i]) throws and main rejects, or its vector is
\* pushed with the piece; a full buffer or the last piece goes to the insert
EmbedPiece ==
    /\ ipc = "embed"
    /\ embedCalls' = embedCalls + 1
    /\ \E r \in EmbedReplies :
         /\ EmptyReply(r) => emptyReplies < MaxEmptyReplies
         /\ emptyReplies' = IF EmptyReply(r) THEN emptyReplies + 1 ELSE emptyReplies
         /\ embedFailed' = (embedFailed \/ ReplyFails(r))
         /\ IF EmbedResult(r).throws
            THEN /\ ipc' = "exited"
                 /\ exitCode' = 1
                 /\ UNCHANGED <<idx, buffer>>
            ELSE /\ buffer' = Append(buffer, [index |-> idx, dim |-> EmbedResult(r).dim])
                 /\ exitCode' = exitCode
                 /\ IF FlushDue(buffer', idx, npieces)
                    THEN /\ ipc' = "insert"
                         /\ idx' = idx
                    ELSE /\ ipc' = "embed"
                         /\ idx' = idx + 1
    /\ UNCHANGED <<npieces, chunks, nonIngest>>

\* ingest.ts:194-203: the store takes the batch, the buffer is emptied and the loop
\* goes on or main ends; or the store refuses and main rejects
InsertBatch ==
    /\ ipc = "insert"
    /\ \/ /\ chunks' = chunks \o buffer
          /\ buffer' = <<>>
          /\ idx' = idx + 1
          /\ IF idx + 1 < npieces
             THEN /\ ipc' = "embed"
                  /\ exitCode' = exitCode
             ELSE /\ ipc' = "exited"
                  /\ exitCode' = 0
       \/ /\ ipc' = "exited"
          /\ exitCode' = 1
          /\ UNCHANGED <<idx, buffer, chunks>>
    /\ UNCHANGED <<npieces, embedCalls, emptyReplies, embedFailed, nonIngest>>

NextIngest == CreateDocument \/ EmbedPiece \/ InsertBatch

SpecIngest == InitIngest /\ [][NextIngest]_vars

-----------------------------------------------------------------------------
(* chunkText and slidingWindows, ingest.ts:85-118 *)

\* A text is a sequence of characters: a letter, a space, a newline.
ChunkChars == {"a", "sp", "nl"}
\* \s of a regular expression, and what trim() strips
IsSpace(c) == c \in {"sp", "nl", "tab", "cr", "nbsp"}

RECURSIVE TrimStart(_)
TrimStart(s) == IF s # <<>> /\ IsSpace(Head(s)) THEN TrimStart(Tail(s)) ELSE s
RECURSIVE TrimEnd(_)
TrimEnd(s) == IF s # <<>> /\ IsSpace(s[Len(s)]) THEN TrimEnd(SubSeq(s, 1, Len(s) - 1)) ELSE s
\* String.prototype.trim
Trim(s) == TrimEnd(TrimStart(s))

\* s.slice(from, to) with 0 <= from <= to <= s.length
Slice(s, from, to) == SubSeq(s, from + 1, to)

\* where a match of /\n\s*\n/ that starts at index p (from 1) ends, 0 if there is
\* none: \s* takes the whole run of spaces after p and gives back to its last "\n"
MatchEnd(t, p) ==
    IF t[p] # "nl" THEN 0
    ELSE LET ends == { q \in (p + 1)..Len(t) :
                         /\ t[q] = "nl"
                         /\ \A j \in (p + 1)..q : IsSpace(t[j]) }
         IN  IF ends = {} THEN 0 ELSE CHOOSE q \in ends : \A r \in ends : r <= q

RECURSIVE SplitFrom(_, _, _)
\* the paragraphs of t from index start on, the scan standing at p
SplitFrom(t, p, start) ==
    IF p > Len(t) THEN << SubSeq(t, start, Len(t)) >>
    ELSE IF MatchEnd(t, p) # 0
         THEN << SubSeq(t, start, p - 1) >> \o SplitFrom(t, MatchEnd(t, p) + 1, MatchEnd(t, p) + 1)
         ELSE SplitFrom(t, p + 1, start)

\* ingest.ts:97  text.split(/\n\s*\n/)
SplitParas(t) == SplitFrom(t, 1, 1)

RECURSIVE WindowsFrom(_, _, _, _)
\* ingest.ts:88-92: the loop of slidingWindows from start on
WindowsFrom(s, sz, step, start) ==
    IF start >= Len(s) THEN <<>>
    ELSE LET end == Min(Len(s), start + sz)
         IN  << Slice(s, start, end) >> \o
             (IF end = Len(s) THEN <<>> ELSE WindowsFrom(s, sz, step, start + step))

\* a faulty variant: the windows one size apart, the overlap forgotten
SlidingWindowsWithoutOverlap(s, sz, ov) == WindowsFrom(s, sz, sz, 0)

\* ingest.ts:85-94
SlidingWindows(s, sz, ov) == WindowsFrom(s, sz, Max(1, sz - ov), 0)

\* ingest.ts:106  (buf + "\n\n" + p).length <= size
Fits(buf, p, sz) == Len(buf \o <<"nl", "nl">> \o p) <= sz

RECURSIVE ParaLoop(_, _, _, _, _, _)
\* ingest.ts:105-112: the loop over paras from the i-th on; buf and chunks so far
ParaLoop(paras, i, buf, cs, sz, ov) ==
    IF i > Len(paras) THEN [buf |-> buf, chunks |-> cs]
    ELSE IF Fits(buf, paras[i], sz)
         THEN ParaLoop(paras, i + 1,
                       IF buf # <<>> THEN buf \o <<"nl", "nl">> \o paras[i] ELSE paras[i],
                       cs, sz, ov)
         ELSE ParaLoop(paras, i + 1, paras[i], cs \o SlidingWindows(buf, sz, ov), sz, ov)

\* a faulty variant: the remainder flushed whatever its length
RemainderAlwaysFlushed(buf, sz, ov) ==
    IF Trim(buf) # <<>> THEN << Trim(buf) >> ELSE <<>>

\* ingest.ts:100-104, 113-116: what the remainder adds to the chunks
Remainder(buf, sz, ov) ==
    IF buf = <<>> THEN <<>>
    ELSE IF Len(buf) <= sz
         THEN (IF Trim(buf) # <<>> THEN << Trim(buf) >> ELSE <<>>)
         ELSE SlidingWindows(buf, sz, ov)

\* ingest.ts:97-116: the chunks array before the return
PushedChunks(t, sz, ov) ==
    LET r == ParaLoop(SplitParas(t), 1, <<>>, <<>>, sz, ov)
    IN  r.chunks \o Remainder(r.buf, sz, ov)

\* ingest.ts:117  Math.min(80, Math.floor(size * 0.15))
MinChunkLen(sz) == Min(80, (sz * 15) \div 100)

\* ingest.ts:117  chunks.map(c => c.trim()).filter(c => c.length >= ...)
ChunkText(t, sz, ov) ==
    LET cs == PushedChunks(t, sz, ov)
        trimmed == [i \in 1..Len(cs) |-> Trim(cs[i])]
    IN  SelectSeq(trimmed, LAMBDA c : Len(c) >= MinChunkLen(sz))

InitChunk ==
    /\ threshold = 0
    /\ hasKey = FALSE
    /\ pc = "idle"
    /\ IdleLocals
    /\ InitStore
    /\ InitEmbedder
    /\ InitIngestIdle
    /\ cpc = "input"
    /\ text \in SeqsUpTo(ChunkChars, MaxTextLen)
    /\ size \in 1..MaxSize
    /\ overlap \in 0..(size - 1)
    /\ pushed = <<>>
    /\ pieces = <<>>
    /\ windows = <<>>
    /\ InitNormalizeIdle

\* ingest.ts:161  chunkText(text, size, overlap), and slidingWindows (ingest.ts:85)
\* on the same text
RunChunkText ==
    /\ cpc = "input"
    /\ pushed' = PushedChunks(text, size, overlap)
    /\ pieces' = ChunkText(text, size, overlap)
    /\ windows' = SlidingWindows(text, size, overlap)
    /\ cpc' = "chunked"
    /\ UNCHANGED <<text, size, overlap, nonChunk>>

NextChunk == RunChunkText

SpecChunk == InitChunk /\ [][NextChunk]_vars

-----------------------------------------------------------------------------
(* normalize, ingest.ts:76-83 *)

\* A raw text is a sequence of characters: a letter, a space, a newline, a tab,
\* a carriage return, a non-breaking space.
RawChars == {"a", "sp", "nl", "tab", "cr", "nbsp"}

\* s with every character c replaced by f[c], a replace(/c/g, ...) of one
\* character by one
MapChars(s, from, to) == [i \in 1..Len(s) |-> IF s[i] = from THEN to ELSE s[i]]

\* ingest.ts:78  .replace(/\r/g, "\n")
CrToNl(s) == MapChars(s, "cr", "nl")

\* ingest.ts:79  .replace(/\t/g, " ")
TabToSpace(s) == MapChars(s, "tab", "sp")

RECURSIVE CollapseSpaces(_)
\* ingest.ts:80  .replace(/[ \u00A0]+/g, " ")
CollapseSpaces(s) ==
    IF s = <<>> THEN <<>>
    ELSE IF Head(s) \in {"sp", "nbsp"}
         THEN IF Len(s) >= 2 /\ s[2] \in {"sp", "nbsp"}
              THEN CollapseSpaces(Tail(s))
              ELSE <<"sp">> \o CollapseSpaces(Tail(s))
         ELSE <<Head(s)>> \o CollapseSpaces(Tail(s))

RECURSIVE NewlineRun(_)
\* the number of newlines s starts with
NewlineRun(s) == IF s # <<>> /\ Head(s) = "nl" THEN 1 + NewlineRun(Tail(s)) ELSE 0

RECURSIVE CollapseNewlines(_)
\* ingest.ts:81  .replace(/\n{3,}/g, "\n\n")
CollapseNewlines(s) ==
    IF s = <<>> THEN <<>>
    ELSE LET n == NewlineRun(s)
         IN  IF n >= 3 THEN <<"nl", "nl">> \o CollapseNewlines(SubSeq(s, n + 1, Len(s)))
             ELSE IF n >= 1 THEN SubSeq(s, 1, n) \o CollapseNewlines(SubSeq(s, n + 1, Len(s)))
             ELSE <<Head(s)>> \o CollapseNewlines(Tail(s))

\* a faulty variant: the spaces collapsed before the tabs become spaces
NormalizeSpacesFirst(t) == Trim(CollapseNewlines(TabToSpace(CollapseSpaces(CrToNl(t)))))

\* ingest.ts:76-83
Normalize(t) == Trim(CollapseNewlines(CollapseSpaces(TabToSpace(CrToNl(t)))))

InitNormalize ==
    /\ threshold = 0
    /\ hasKey = FALSE
    /\ pc = "idle"
    /\ IdleLocals
    /\ InitStore
    /\ InitEmbedder
    /\ InitIngestIdle
    /\ InitChunkIdle
    /\ npc = "raw"
    /\ raw \in SeqsUpTo(RawChars, MaxRawLen)
    /\ normalized = <<>>
    /\ renormalized = <<>>

\* ingest.ts:158  normalize(raw), and normalize again on what it gave
RunNormalize ==
    /\ npc = "raw"
    /\ normalized' = Normalize(raw)
    /\ renormalized' = Normalize(Normalize(raw))
    /\ npc' = "normalized"
    /\ UNCHANGED <<raw, nonNormalize>>

NextNormalize == RunNormalize

SpecNormalize == InitNormalize /\ [][NextNormalize]_vars

-----------------------------------------------------------------------------
(* Properties of the query handler *)

\* the search of this request returned and found nothing
SearchFoundNothing == rpc = "ok" /\ (matches.null \/ matches.rows = <<>>)
\* the search of this request returned at least one match
SearchFoundMatches == rpc = "ok" /\ ~matches.null /\ matches.rows # <<>>

\* C1: when the search returns null or zero matches, the response is the fixed
\* "insufficient information" answer with no citations and confidence 0, and
\* askGemini is not called at any point of the request.
C1_NoMatchSentinel ==
    SearchFoundNothing =>
        /\ askCalls = 0
        /\ gemini = "notcalled"
        /\ pc \in {"nomatch_save", "responded"}
        /\ pc = "responded" => response = AnswerResponse(FallbackAnswer, <<>>, 0)

C1_Witness ==
    /\ pc = "responded"
    /\ rpc = "ok"
    /\ ~matches.null
    /\ Len(matches.rows) = 0
    /\ response.status = 200

\* C2: for a question without matches, a ticket is asked for the saved query of
\* the request exactly when the threshold is above 0.
C2_NoMatchTicketIffThresholdPositive ==
    (pc = "responded" /\ SearchFoundNothing /\ insertedId # 0) =>
        ((threshold > 0) <=> (ticketReq.issued /\ ticketReq.query_id = insertedId))

\* C3: a failure of the generative backend (unreachable, missing credential,
\* non-success status) is answered with a non-empty answer, never with an error.
C3_GenerationFailureRecovered ==
    (pc = "responded" /\ SearchFoundMatches /\ gemini \in {"offline", "unreachable", "status"}) =>
        /\ response.status = 200
        /\ response.error = ""
        /\ response.answer.len > 0

\* C5: a ticket is asked for only after the queries insert of the same request
\* returned a row with an id; it names that id with status "open"; no query has
\* two tickets; without a saved query there is no ticket.
C5_TicketOnlyAfterSavedQuery ==
    /\ ticketReq.issued =>
         /\ pc \in {"ticket", "responded"}
         /\ saved.ok /\ saved.id # 0 /\ saved.id = insertedId
         /\ ticketReq.query_id = saved.id
         /\ ticketReq.status = "open"
         /\ \E j \in 1..Len(queries) : queries[j].id = saved.id
    /\ \A i \in 1..Len(tickets) :
         /\ tickets[i].status = "open"
         /\ \E j \in 1..Len(queries) : queries[j].id = tickets[i].query_id
         /\ \A k \in 1..Len(tickets) : tickets[k].query_id = tickets[i].query_id => k = i
    /\ (pc = "responded" /\ ~saved.ok) => ~ticketReq.issued

C5_Witness ==
    /\ pc = "responded"
    /\ Len(tickets) = 2
    /\ ticketReq.issued
    /\ tickets[2].query_id = saved.id

\* C6: for a request with matches whose query was saved, a ticket is asked for
\* if and only if confidence < threshold; confidence = threshold asks for none.
C6_TicketIffBelowThreshold ==
    (pc = "responded" /\ SearchFoundMatches /\ saved.ok) =>
        /\ response.status = 200
        /\ ticketReq.issued <=> response.confidence < threshold

C6_Witness ==
    /\ pc = "responded"
    /\ SearchFoundMatches
    /\ saved.ok
    /\ response.confidence = threshold
    /\ threshold > 0
    /\ ~ticketReq.issued

\* the clamp of a raw similarity to [0,1], an absent one counting as 0
Clamped(sim) == IF ~sim.defined THEN 0
                ELSE IF sim.value < 0 THEN 0
                ELSE IF sim.value > Scale THEN Scale
                ELSE sim.value

\* C9: the confidence of every answer is in [0,1]; with matches it is the first
\* match's similarity clamped to [0,1], whatever the other matches' similarities.
C9_ConfidenceIsClampedTopSimilarity ==
    (pc = "responded" /\ response.status = 200) =>
        /\ response.confidence \in 0..Scale
        /\ SearchFoundMatches => response.confidence = Clamped(matches.rows[1].similarity)
        /\ SearchFoundNothing => response.confidence = 0

C9_Witness ==
    /\ pc = "responded"
    /\ response.status = 200
    /\ Len(matches.rows) = 2
    /\ matches.rows[1].similarity.value = -1
    /\ matches.rows[2].similarity.value = Scale + 1
    /\ response.confidence = 0

-----------------------------------------------------------------------------
(* Properties of the context assembly *)

\* the block pieces of a context, in order
BlockPieces(ctx) == SelectSeq(ctx, LAMBDA p : p.kind = "block")

RECURSIVE JoinLen(_, _)
\* the length of blocks 1..k joined by the separator
JoinLen(blocks, k) == IF k = 0 THEN 0
                      ELSE IF k = 1 THEN StrLen(<<blocks[1]>>)
                      ELSE JoinLen(blocks, k - 1) + StrLen(<<Separator>>) + StrLen(<<blocks[k]>>)

\* the length of blocks 1..k, the separator and block k+1
WithNext(blocks, k) == JoinLen(blocks, k) + StrLen(<<Separator>>) + StrLen(<<blocks[k + 1]>>)

\* C4: the context is never longer than 9000 characters; it is the first k blocks
\* of the ranked list, in rank order, each whole, joined by the separator; and k
\* is where the first block stands for which the length so far plus the separator
\* plus the block exceeds 9000.
C4_ContextWithinBudget ==
    pc = "assembled" =>
        LET blocks == ContextBlocks(matches.rows, docsById)
            k == Len(BlockPieces(context))
        IN  /\ StrLen(context) <= ContextBudget
            /\ k <= Len(blocks)
            /\ Len(context) = IF k = 0 THEN 0 ELSE 2 * k - 1
            /\ \A i \in 1..k : context[2 * i - 1] = blocks[i]
            /\ \A i \in 1..(k - 1) : context[2 * i] = Separator
            /\ \A i \in 1..k : WithNext(blocks, i - 1) <= ContextBudget
            /\ k < Len(blocks) => WithNext(blocks, k) > ContextBudget

C4_Witness ==
    /\ pc = "assembled"
    /\ Len(matches.rows) = 3
    /\ Len(BlockPieces(context)) = 2
    /\ StrLen(context) > ContextBudget - 100


-----------------------------------------------------------------------------
(* Properties of the embedder *)

\* C8: for any interleaving of concurrent first calls, the model load runs at
\* most once and every caller runs its text on that one instance.
C8_ModelLoadedAtMostOnce ==
    /\ loads <= 1
    /\ \A c, d \in Callers : (eused[c] # 0 /\ eused[d] # 0) => eused[c] = eused[d]


-----------------------------------------------------------------------------
(* Properties of the ingestion *)

\* C7: no chunk row is persisted whose embedding is empty or a placeholder, and
\* a reply without a usable vector ends the ingestion with an error.
C7_NoEmptyEmbeddingPersisted ==
    \A i \in 1..Len(chunks) : chunks[i].dim > 0


-----------------------------------------------------------------------------
(* Properties of the chunker *)

\* C10: whatever the text and 0 <= overlap < size, every chunk chunkText produces
\* is at most size characters long before the short-fragment filter, whether it
\* is a flushed buffer or a window of the splitter.
C10_ChunksWithinSize ==
    cpc = "chunked" =>
        /\ \A i \in 1..Len(pushed) : Len(pushed[i]) <= size /\ Len(Trim(pushed[i])) <= size
        /\ \A i \in 1..Len(pieces) : Len(pieces[i]) <= size

C10_Witness ==
    /\ cpc = "chunked"
    /\ Len(text) > size
    /\ overlap > 0
    /\ Len(pushed) >= 3
    /\ \E i \in 1..Len(pushed) : Len(pushed[i]) = size
    /\ \E i \in 1..Len(text) : text[i] = "nl" /\ MatchEnd(text, i) # 0


\* where the k-th window (from 1) of the splitter is to start and to end, as
\* offsets into the string: [start, end)
WindowStart(k) == (k - 1) * Max(1, size - overlap)
WindowEnd(k) == Min(Len(text), WindowStart(k) + size)

\* C11: for a string longer than size and 0 <= overlap < size, the windows of
\* slidingWindows start at 0, step, 2*step, ... with step = max(1, size - overlap),
\* the k-th is the slice [start, min(len, start + size)), the last one ends at the
\* end of the string and none before it does, every character lies in a window,
\* and two consecutive windows share exactly overlap characters.
C11_WindowsCoverWithOverlap ==
    (cpc = "chunked" /\ Len(text) > size) =>
        LET n == Len(windows)
        IN  /\ n >= 2
            /\ \A k \in 1..n : windows[k] = SubSeq(text, WindowStart(k) + 1, WindowEnd(k))
            /\ WindowEnd(n) = Len(text)
            /\ \A k \in 1..(n - 1) : WindowEnd(k) = WindowStart(k) + size /\ WindowEnd(k) < Len(text)
            /\ \A i \in 0..(Len(text) - 1) :
                 \E k \in 1..n : WindowStart(k) <= i /\ i < WindowEnd(k)
            /\ \A k \in 1..(n - 1) :
                 /\ WindowStart(k + 1) <= WindowEnd(k)
                 /\ Cardinality({ i \in 0..(Len(text) - 1) :
                                    /\ WindowStart(k) <= i /\ i < WindowEnd(k)
                                    /\ WindowStart(k + 1) <= i /\ i < WindowEnd(k + 1) }) = overlap

C11_Witness ==
    /\ cpc = "chunked"
    /\ Len(text) > size
    /\ overlap >= 1
    /\ Len(windows) >= 3
    /\ Len(windows[Len(windows)]) < size
    /\ \E i, j \in 1..Len(text) : text[i] # text[j]


-----------------------------------------------------------------------------
(* Properties of the normalizer *)

\* C12: normalize is idempotent: normalizing a normalized text over carriage
\* returns, newlines, tabs, spaces, non-breaking spaces and letters changes nothing.
C12_NormalizeIdempotent ==
    npc = "normalized" => renormalized = normalized

C12_Witness ==
    /\ npc = "normalized"
    /\ \E i \in 1..Len(raw) : raw[i] = "tab"
    /\ \E i \in 1..Len(raw) : raw[i] = "cr"
    /\ Len(raw) = MaxRawLen
    /\ Len(normalized) = 3
    /\ normalized # raw
    /\ renormalized = normalized

-----------------------------------------------------------------------------
(* Properties of the ingestion loop *)

\* the run has printed "Ingesta completa" and main has resolved
ReportedComplete == ipc = "exited" /\ exitCode = 0

\* once an embed call has thrown, main has rejected and the process left with 1
AbortedOnFailure == embedFailed => (ipc = "exited" /\ exitCode = 1)

\* a completed run has every piece in the table and has seen no failed call
CompleteMeansAllPersisted == ReportedComplete => (~embedFailed /\ Len(chunks) = npieces)

\* after a failed call there is no further embed call and no further insert
NothingAfterFailure == embedFailed => (embedCalls' = embedCalls /\ chunks' = chunks)

\* C13: a failed embedding call aborts the whole ingestion with exit code 1, no
\* embed call and no chunk insert follows it, and a run that reports completion
\* has persisted every piece.
C13_EmbedFailureAborts ==
    [](AbortedOnFailure /\ CompleteMeansAllPersisted) /\ [][NothingAfterFailure]_vars

C13_Witness ==
    /\ embedFailed
    /\ ipc = "exited"
    /\ exitCode = 1
    /\ Len(chunks) = BATCH
    /\ embedCalls > BATCH + 1
    /\ buffer # <<>>
    /\ npieces > embedCalls

\* row j of a sequence of rows that starts at piece k carries index k + j - 1
InOrderFrom(rows, k) == \A j \in 1..Len(rows) : rows[j].index = k + j - 1

\* C14: the persisted rows are pieces 0..k-1 in order, each once, with its index;
\* an insert carries at most BATCH rows, which are the pieces that follow; k is
\* a multiple of BATCH until the last batch and is pieces.length at completion.
C14_PersistedIsPrefixInBatches ==
    /\ Len(chunks) <= npieces
    /\ InOrderFrom(chunks, 0)
    /\ Len(buffer) <= BATCH
    /\ InOrderFrom(buffer, Len(chunks))
    /\ Len(chunks) + Len(buffer) <= npieces
    /\ (Len(chunks) % BATCH = 0 \/ Len(chunks) = npieces)
    /\ (ipc = "insert" => buffer # <<>>)
    /\ (ipc = "exited" /\ exitCode = 0 => Len(chunks) = npieces /\ buffer = <<>>)

C14_Witness ==
    /\ ipc = "exited"
    /\ exitCode = 0
    /\ npieces = 2 * BATCH + 1
    /\ Len(chunks) = npieces
    /\ chunks[npieces].index = 2 * BATCH

=============================================================================
